---- MODULE Spec2Model ----
(***************************************************************************)
(* Model of script_detector.py: the code-point range table, the bounded    *)
(* scan of ScriptDetector.detect, the word -> language cache with its      *)
(* dirty flag and JSON snapshot, and the batch annotators.                 *)
(*                                                                         *)
(* A str is a sequence of code points; None is the token NoneTok.  A score *)
(* (a float in the code) is a reduced fraction <<num, den>>.               *)
(***************************************************************************)
EXTENDS Integers, Sequences, FiniteSets, TLC

VARIABLES
  sample_chars,     \* ScriptDetector.sample_chars
  default_code,     \* ScriptDetector.default_code
  cache_file,       \* ScriptDetector.cache_file (NoFile when None)
  _cache,           \* ScriptDetector._cache: function token -> language
  _dirty,           \* ScriptDetector._dirty
  snapshot,         \* the document stored at cache_file
  alive,            \* FALSE when __post_init__ raised: no detector exists
  pc,               \* "idle", or the batch call in progress
  op,               \* the operation that took the last step
  arg,              \* detect's argument in the last detect call
  ret,              \* detect's return value in the last detect call
  raised,           \* the exception the last step raised, or "none"
  auto_cache,       \* the running batch call's auto_cache argument
  min_cache_score,  \* the running batch call's min_cache_score argument
  todo,             \* columns / keys the running batch call has yet to process
  done,             \* columns / keys the current (or last) batch call has processed
  ser,              \* the column (after astype(str)) / record value just processed
  labels,           \* the "<col>_lang" column / "<k>_lang" value just produced
  detects,          \* detect calls made for the column just processed
  writes,           \* snapshot writes made by the current (or last) operation
  inserted,         \* history: an insert has occurred since the last snapshot write
  lastLang,         \* history: token -> language of its latest insertion or load
  repeat,           \* history: the last detect call against the detect call right
                    \* before it on the same token: "same" or "differs"; else "first"
  touched           \* history: the last detect call changed _cache, _dirty or snapshot

vars == <<sample_chars, default_code, cache_file, _cache, _dirty, snapshot, alive,
          pc, op, arg, ret, raised, auto_cache, min_cache_score, todo, ser, labels,
          done, detects, writes, inserted, lastLang, repeat, touched>>

config == <<sample_chars, default_code, cache_file>>
call   == <<auto_cache, min_cache_score, todo>>

----------------------------------------------------------------------------
(* Bounds of the model *)

\* longest token drawn for the classifier
MaxLen == 3
\* largest sample_chars drawn for the classifier
MaxSample == 3
\* most rows of a column
MaxRows == 2
\* most columns (annotate_frame) or keys (annotate_json) of one batch call
MaxCols == 2

----------------------------------------------------------------------------
(* Values *)

NoneTok == <<-1>>
NoLang  == "None"
NoFile  == "None"
Empty   == [t \in {} |-> NoLang]

\* str(None), as Series.astype(str) produces it
StrNone == <<78, 111, 110, 101>>

\* code points the classifier's tokens are drawn from: space, ZERO WIDTH SPACE,
\* '.', '1', 'A', e-acute, DEVANAGARI A, ARABIC ALEF, EM DASH
Alphabet == {32, 8203, 46, 49, 65, 233, 2309, 1575, 8212}

Zero == <<0, 1>>
One  == <<1, 1>>

RECURSIVE GCD(_, _)
GCD(a, b) == IF b = 0 THEN a ELSE GCD(b, a % b)

\* the float n / d
Frac(n, d) == LET g == GCD(n, d) IN <<n \div g, d \div g>>

\* a >= b on floats
ScoreGE(a, b) == a[1] * b[2] >= b[1] * a[2]

\* Python truthiness of a str | None
Truthy(text) == text # NoneTok /\ text # <<>>

----------------------------------------------------------------------------
(* 1. Unicode-block look-up table (inclusive start, exclusive stop), in the  *)
(*    dict's declared order                                                  *)

UNICODE_RANGES ==
  << [lang |-> "hi",  ranges |-> << <<2304, 2432>> >>],
     [lang |-> "gu",  ranges |-> << <<2688, 2816>> >>],
     [lang |-> "pa",  ranges |-> << <<2560, 2688>> >>],
     [lang |-> "bn",  ranges |-> << <<2432, 2560>> >>],
     [lang |-> "or",  ranges |-> << <<2816, 2944>> >>],
     [lang |-> "tam", ranges |-> << <<2944, 3072>> >>],
     [lang |-> "te",  ranges |-> << <<3072, 3200>> >>],
     [lang |-> "kn",  ranges |-> << <<3200, 3328>> >>],
     [lang |-> "ml",  ranges |-> << <<3328, 3456>> >>],
     [lang |-> "ur",  ranges |-> << <<1536, 1792>>, <<1872, 1920>> >>],
     [lang |-> "en",  ranges |-> << <<0, 128>>, <<128, 256>> >>] >>

Langs == {UNICODE_RANGES[i].lang : i \in 1..Len(UNICODE_RANGES)}

\* cp in range(r[1], r[2])
InRange(cp, r) == r[1] <= cp /\ cp < r[2]

\* set(map(ord, string.printable)): digits, letters, punctuation, ' \t\n\r\x0b\x0c'
_ASCII == (32..126) \cup (9..13)

----------------------------------------------------------------------------
(* 2. Low-level helpers *)

InLang(cp, entry) == \E j \in 1..Len(entry.ranges) : InRange(cp, entry.ranges[j])

\* mutant of _char_lang: the fast path answers with the detector's default_code
_char_lang_default_code(cp) ==
  IF cp \in _ASCII THEN default_code
  ELSE LET hits == {i \in 1..Len(UNICODE_RANGES) : InLang(cp, UNICODE_RANGES[i])}
       IN IF hits = {} THEN NoLang
          ELSE UNICODE_RANGES[CHOOSE i \in hits : \A k \in hits : i <= k].lang

\* mutant of _char_lang: only the first range of each language is tried
_char_lang_first_range(cp) ==
  IF cp \in _ASCII THEN "en"
  ELSE LET hits == {i \in 1..Len(UNICODE_RANGES) :
                      InRange(cp, UNICODE_RANGES[i].ranges[1])}
       IN IF hits = {} THEN NoLang
          ELSE UNICODE_RANGES[CHOOSE i \in hits : \A k \in hits : i <= k].lang

_char_lang(cp) ==
  IF cp \in _ASCII THEN "en"
  ELSE LET hits == {i \in 1..Len(UNICODE_RANGES) : InLang(cp, UNICODE_RANGES[i])}
       IN IF hits = {} THEN NoLang
          ELSE UNICODE_RANGES[CHOOSE i \in hits : \A k \in hits : i <= k].lang

Significant(cp) == ~(cp <= 32 \/ (8192 <= cp /\ cp <= 8207))

_iter_significant(text) == SelectSeq(text, Significant)

----------------------------------------------------------------------------
(* 3. ScriptDetector.detect *)

\* counts is a dict: a sequence of <<lang, count>> in insertion order
counts_get(counts, lang) ==
  LET at == {i \in 1..Len(counts) : counts[i][1] = lang}
  IN IF at = {} THEN 0 ELSE counts[CHOOSE i \in at : TRUE][2]

counts_set(counts, lang, n) ==
  IF \E i \in 1..Len(counts) : counts[i][1] = lang
  THEN [i \in 1..Len(counts) |->
          IF counts[i][1] = lang THEN <<lang, n>> ELSE counts[i]]
  ELSE Append(counts, <<lang, n>>)

\* mutant of max_key: the last key of maximal count
max_key_last(counts) ==
  LET best == CHOOSE i \in 1..Len(counts) :
                /\ \A k \in 1..Len(counts) : counts[k][2] <= counts[i][2]
                /\ \A k \in (i + 1)..Len(counts) : counts[k][2] < counts[i][2]
  IN counts[best][1]

\* max(counts, key=counts.get): the first key, in iteration order, of maximal count
max_key(counts) ==
  LET best == CHOOSE i \in 1..Len(counts) :
                /\ \A k \in 1..Len(counts) : counts[k][2] <= counts[i][2]
                /\ \A k \in 1..(i - 1) : counts[k][2] < counts[i][2]
  IN counts[best][1]

\* mutant of scan: the unknown language is counted like any other
RECURSIVE scan_count_unknown(_, _, _, _)
scan_count_unknown(sig, i, total, counts) ==
  IF i > Len(sig) THEN [total |-> total, counts |-> counts]
  ELSE LET total1 == total + 1
           lang   == _char_lang(sig[i])
           counts1 == counts_set(counts, lang, counts_get(counts, lang) + 1)
       IN IF total1 >= sample_chars
          THEN [total |-> total1, counts |-> counts1]
          ELSE scan_count_unknown(sig, i + 1, total1, counts1)

\* mutant of scan: the loop breaks one character late
RECURSIVE scan_off_by_one(_, _, _, _)
scan_off_by_one(sig, i, total, counts) ==
  IF i > Len(sig) THEN [total |-> total, counts |-> counts]
  ELSE LET total1 == total + 1
           lang   == _char_lang(sig[i])
           counts1 == IF lang # NoLang
                      THEN counts_set(counts, lang, counts_get(counts, lang) + 1)
                      ELSE counts
       IN IF total1 > sample_chars
          THEN [total |-> total1, counts |-> counts1]
          ELSE scan_off_by_one(sig, i + 1, total1, counts1)

\* the for loop of detect over the significant code points sig, from index i
RECURSIVE scan(_, _, _, _)
scan(sig, i, total, counts) ==
  IF i > Len(sig) THEN [total |-> total, counts |-> counts]
  ELSE LET total1 == total + 1
           lang   == _char_lang(sig[i])
           counts1 == IF lang # NoLang
                      THEN counts_set(counts, lang, counts_get(counts, lang) + 1)
                      ELSE counts
       IN IF total1 >= sample_chars
          THEN [total |-> total1, counts |-> counts1]
          ELSE scan(sig, i + 1, total1, counts1)

cache_get(c, text) == IF text \in DOMAIN c THEN c[text] ELSE NoLang

\* mutant of detect_scan: the score is taken over the resolved characters alone
detect_scan_resolved_total(text) ==
  LET s == scan(_iter_significant(text), 1, 0, <<>>)
      resolved[i \in 0..Len(s.counts)] ==
        IF i = 0 THEN 0 ELSE resolved[i - 1] + s.counts[i][2]
  IN IF s.counts = <<>> THEN <<default_code, Zero>>
     ELSE LET winner == max_key(s.counts)
          IN <<winner, Frac(counts_get(s.counts, winner), resolved[Len(s.counts)])>>

\* the scan of detect, after the empty and cached cases
detect_scan(text) ==
  LET s == scan(_iter_significant(text), 1, 0, <<>>) IN
  IF s.counts = <<>> THEN <<default_code, Zero>>
  ELSE LET winner == max_key(s.counts)
       IN <<winner, Frac(counts_get(s.counts, winner), s.total)>>

\* mutant of detect: the cache is never consulted
detect_uncached(c, text) ==
  IF ~Truthy(text) THEN <<default_code, Zero>> ELSE detect_scan(text)

\* mutant of detect: the cache is consulted before the empty check
detect_cache_first(c, text) ==
  LET cached == cache_get(c, text) IN
  IF text # NoneTok /\ cached # NoLang THEN <<cached, One>>
  ELSE IF ~Truthy(text) THEN <<default_code, Zero>>
  ELSE detect_scan(text)

\* detect on a detector whose _cache is c
detect(c, text) ==
  IF ~Truthy(text) THEN <<default_code, Zero>>
  ELSE LET cached == cache_get(c, text) IN
       IF cached # NoLang THEN <<cached, One>>
       ELSE detect_scan(text)

----------------------------------------------------------------------------
(* The snapshot document: json.dumps / json.loads of the cache *)

Absent  == [kind |-> "absent",  members |-> {}]   \* no file at cache_file
Invalid == [kind |-> "invalid", members |-> {}]   \* text that is not JSON
Array   == [kind |-> "array",   members |-> {}]   \* JSON, but a list of numbers

\* mutant of json_escape: quotes and backslashes are written as they are
json_escape_none(s) == s

RECURSIVE json_escape(_)
json_escape(s) ==
  IF s = <<>> THEN <<>>
  ELSE (IF Head(s) \in {34, 92} THEN <<92, Head(s)>> ELSE <<Head(s)>>)
       \o json_escape(Tail(s))

RECURSIVE json_unescape(_)
json_unescape(t) ==
  IF t = <<>> THEN <<>>
  ELSE IF Head(t) = 92 /\ Len(t) >= 2
       THEN <<t[2]>> \o json_unescape(Tail(Tail(t)))
       ELSE <<Head(t)>> \o json_unescape(Tail(t))

\* a str as a JSON string literal (ensure_ascii=False), and back
json_string(s) == <<34>> \o json_escape(s) \o <<34>>
json_parse_string(t) == json_unescape(SubSeq(t, 2, Len(t) - 1))

\* the decoder's scan of a string literal from index i: the index of the quote
\* that closes it, 0 when the text ends first
RECURSIVE json_end(_, _)
json_end(t, i) ==
  IF i > Len(t) THEN 0
  ELSE IF t[i] = 34 THEN i
  ELSE IF t[i] = 92 THEN json_end(t, i + 2)
  ELSE json_end(t, i + 1)

\* json.loads accepts an "object" document: every key literal ends at its
\* closing quote (JSONDecodeError otherwise)
json_valid(doc) == \A m \in doc.members : json_end(m[1], 2) = Len(m[1])

\* a language code is plain ASCII: its literal is kept as the code itself
json_dumps(c) ==
  [kind |-> "object", members |-> {<<json_string(k), c[k]>> : k \in DOMAIN c}]

\* json.loads of an "object" document
json_loads(doc) ==
  LET keys == {json_parse_string(m[1]) : m \in doc.members}
  IN [k \in keys |->
        (CHOOSE m \in doc.members : json_parse_string(m[1]) = k)[2]]

----------------------------------------------------------------------------
(* Detector state threaded through the methods.  writes, inserted, lastLang *)
(* and detects are history fields: they record what the calls did.          *)

State ==
  [cache |-> _cache, dirty |-> _dirty, snapshot |-> snapshot, writes |-> 0,
   inserted |-> inserted, lastLang |-> lastLang, detects |-> 0]

Commit(st) ==
  /\ _cache' = st.cache
  /\ _dirty' = st.dirty
  /\ snapshot' = st.snapshot
  /\ writes' = st.writes
  /\ inserted' = st.inserted
  /\ lastLang' = st.lastLang

dict_set(d, k, v) == [x \in (DOMAIN d) \cup {k} |-> IF x = k THEN v ELSE d[x]]

\* __post_init__ of a detector on document doc: the loaded cache, or the exception
__post_init__(file, doc) ==
  IF file # NoFile /\ doc.kind # "absent"
  THEN CASE doc.kind = "object" /\ json_valid(doc)
                                 -> [cache |-> json_loads(doc), raised |-> "none"]
         [] doc.kind = "object"  -> [cache |-> Empty, raised |-> "none"]
         [] doc.kind = "invalid" -> [cache |-> Empty, raised |-> "none"]
         [] OTHER                -> [cache |-> Empty, raised |-> "TypeError"]
  ELSE [cache |-> Empty, raised |-> "none"]

\* mutant of _add_to_cache: every insert is written through to the file
_add_to_cache_write_through(st, phrase, lang) ==
  [st EXCEPT !.cache = dict_set(@, phrase, lang),
             !.dirty = TRUE,
             !.inserted = TRUE,
             !.lastLang = dict_set(@, phrase, lang),
             !.snapshot = IF cache_file # NoFile
                          THEN json_dumps(dict_set(st.cache, phrase, lang))
                          ELSE @]

_add_to_cache(st, phrase, lang) ==
  [st EXCEPT !.cache = dict_set(@, phrase, lang),
             !.dirty = TRUE,
             !.inserted = TRUE,
             !.lastLang = dict_set(@, phrase, lang)]

\* mutant of _flush_cache: _dirty is cleared whether or not a file is written
_flush_cache_always_clean(st) ==
  IF st.dirty
  THEN IF cache_file # NoFile
       THEN [st EXCEPT !.snapshot = json_dumps(st.cache),
                       !.dirty = FALSE,
                       !.writes = @ + 1,
                       !.inserted = FALSE]
       ELSE [st EXCEPT !.dirty = FALSE]
  ELSE st

\* mutant of _flush_cache: the file is written whenever the cache holds an entry
_flush_cache_nonempty(st) ==
  IF st.cache # Empty /\ cache_file # NoFile
  THEN [st EXCEPT !.snapshot = json_dumps(st.cache),
                  !.dirty = FALSE,
                  !.writes = @ + 1,
                  !.inserted = FALSE]
  ELSE st

\* mutant of _flush_cache: the file is written whether or not _dirty is set
_flush_cache_ignores_dirty(st) ==
  IF cache_file # NoFile
  THEN [st EXCEPT !.snapshot = json_dumps(st.cache),
                  !.dirty = FALSE,
                  !.writes = @ + 1,
                  !.inserted = FALSE]
  ELSE st

_flush_cache(st) ==
  IF st.dirty /\ cache_file # NoFile
  THEN [st EXCEPT !.snapshot = json_dumps(st.cache),
                  !.dirty = FALSE,
                  !.writes = @ + 1,
                  !.inserted = FALSE]
  ELSE st

----------------------------------------------------------------------------
(* pandas: Series.astype(str), Series.unique, Series.map *)

astype_str(col) ==
  [i \in 1..Len(col) |-> IF col[i] = NoneTok THEN StrNone ELSE col[i]]

\* mutant of unique: every row is kept
unique_rows(s) == s

\* the distinct values in order of first appearance
unique(s) ==
  LET F[i \in 0..Len(s)] ==
        IF i = 0 THEN <<>>
        ELSE IF \E j \in 1..(i - 1) : s[j] = s[i] THEN F[i - 1]
             ELSE Append(F[i - 1], s[i])
  IN F[Len(s)]

series_map(s, lang_map) == [i \in 1..Len(s) |-> lang_map[s[i]]]

\* mutant of frame_values: a value is cached under default_code
RECURSIVE frame_values_cache_default(_, _, _, _)
frame_values_cache_default(st, uniques, i, lang_map) ==
  IF i > Len(uniques) THEN [st |-> st, lang_map |-> lang_map]
  ELSE LET val == uniques[i]
           r   == detect(st.cache, val)
           st1 == [st EXCEPT !.detects = @ + 1]
           st2 == IF auto_cache /\ ScoreGE(r[2], min_cache_score)
                  THEN _add_to_cache(st1, val, default_code)
                  ELSE st1
       IN frame_values_cache_default(st2, uniques, i + 1,
                                     dict_set(lang_map, val, r[1]))

\* mutant of frame_values: every detected value is cached, whatever its score
RECURSIVE frame_values_no_threshold(_, _, _, _)
frame_values_no_threshold(st, uniques, i, lang_map) ==
  IF i > Len(uniques) THEN [st |-> st, lang_map |-> lang_map]
  ELSE LET val == uniques[i]
           r   == detect(st.cache, val)
           st1 == [st EXCEPT !.detects = @ + 1]
           st2 == IF auto_cache THEN _add_to_cache(st1, val, r[1]) ELSE st1
       IN frame_values_no_threshold(st2, uniques, i + 1,
                                    dict_set(lang_map, val, r[1]))

\* the inner loop of annotate_frame over uniques, from index i
RECURSIVE frame_values(_, _, _, _)
frame_values(st, uniques, i, lang_map) ==
  IF i > Len(uniques) THEN [st |-> st, lang_map |-> lang_map]
  ELSE LET val == uniques[i]
           r   == detect(st.cache, val)
           st1 == [st EXCEPT !.detects = @ + 1]
           st2 == IF auto_cache /\ ScoreGE(r[2], min_cache_score)
                  THEN _add_to_cache(st1, val, r[1])
                  ELSE st1
       IN frame_values(st2, uniques, i + 1, dict_set(lang_map, val, r[1]))

\* mutant of frame_column: the cache is flushed after each column
frame_column_flushing(st, col) ==
  LET s   == astype_str(col)
      res == frame_values(st, unique(s), 1, Empty)
  IN [st |-> IF auto_cache THEN _flush_cache(res.st) ELSE res.st,
      ser |-> s, labels |-> series_map(s, res.lang_map)]

\* one iteration of annotate_frame's loop over columns
frame_column(st, col) ==
  LET s   == astype_str(col)
      res == frame_values(st, unique(s), 1, Empty)
  IN [st |-> res.st, ser |-> s, labels |-> series_map(s, res.lang_map)]

\* one iteration of annotate_json's loop over keys; value is record.get(k),
\* Missing when the record has no key k
Missing == <<-2>>
json_key(st, value) ==
  LET r == detect(st.cache, IF value = Missing THEN <<>> ELSE value)
  IN IF auto_cache /\ ScoreGE(r[2], min_cache_score)
     THEN IF value = Missing
          THEN [st |-> st, lang |-> r[1], raised |-> "KeyError"]
          ELSE [st |-> _add_to_cache(st, value, r[1]), lang |-> r[1],
                raised |-> "none"]
     ELSE [st |-> st, lang |-> r[1], raised |-> "none"]

----------------------------------------------------------------------------
(* Inputs the operations are driven with *)

\* DEVANAGARI A then an ASCII character, the double quote a JSON literal escapes
TokHiA == <<2309, 34>>

\* tokens detect, _add_to_cache and annotate_json are driven with: "" and a
\* mixed token
Vocabulary == {<<>>, TokHiA}

\* cells of a DataFrame column before astype(str)
Cells == {NoneTok, StrNone, TokHiA}

DefaultCodes == {"en", "hi"}

\* languages passed to _add_to_cache directly
InsertLangs == {"en", "hi"}

\* (auto_cache, min_cache_score) of a batch call; 0.95 is the declared default
CallOptions == {<<FALSE, <<19, 20>>>>, <<TRUE, <<19, 20>>>>, <<TRUE, Zero>>}

\* sequences over S of length lo..hi
SeqsOf(S, lo, hi) == UNION {[1..n -> S] : n \in lo..hi}

\* tokens the classifier is driven with
AllTokens == SeqsOf(Alphabet, 0, MaxLen)

\* documents found at cache_file when the first detector is constructed
SeedCache == [t \in {<<>>} |-> "hi"]
InitSnapshots == {Absent, Invalid, Array, json_dumps(SeedCache)}

----------------------------------------------------------------------------
(* Initial states: a ScriptDetector has just been constructed *)

Constructed(samples, files, docs) ==
  /\ sample_chars \in samples
  /\ default_code \in DefaultCodes
  /\ cache_file \in files
  /\ snapshot \in (IF cache_file = NoFile THEN {Absent} ELSE docs)
  /\ LET made == __post_init__(cache_file, snapshot) IN
       /\ _cache = made.cache
       /\ lastLang = made.cache
       /\ raised = made.raised
       /\ alive = (made.raised = "none")
  /\ _dirty = FALSE
  /\ inserted = FALSE
  /\ pc = "idle"
  /\ op = "__init__"
  /\ arg = NoneTok
  /\ ret = <<NoLang, Zero>>
  /\ auto_cache = FALSE
  /\ min_cache_score = Zero
  /\ todo = 0
  /\ done = 0
  /\ repeat = "first"
  /\ touched = FALSE
  /\ ser = <<>>
  /\ labels = <<>>
  /\ detects = 0
  /\ writes = 0

\* sample_chars: int = 6
DefaultSampleChars == 6

Init == Constructed({DefaultSampleChars}, {NoFile, "lang_cache.json"}, InitSnapshots)

InitDetect ==
  Constructed(1..MaxSample, {"lang_cache.json"}, {Absent, json_dumps(SeedCache)})

----------------------------------------------------------------------------
(* Operations *)

Idle == alive /\ pc = "idle"

\* no batch call is running, and no detect call is the last one
NoBatch ==
  /\ auto_cache' = FALSE /\ min_cache_score' = Zero /\ todo' = 0 /\ done' = 0
  /\ ser' = <<>> /\ labels' = <<>> /\ detects' = 0

NoDetect ==
  /\ arg' = NoneTok /\ ret' = <<NoLang, Zero>>
  /\ repeat' = "first" /\ touched' = FALSE

\* ScriptDetector(sample_chars, default_code, cache_file): a new detector on the
\* same configuration replaces the current one
PostInit ==
  /\ pc = "idle"
  /\ LET made == __post_init__(cache_file, snapshot) IN
       /\ _cache' = made.cache
       /\ lastLang' = made.cache
       /\ raised' = made.raised
       /\ alive' = (made.raised = "none")
  /\ _dirty' = FALSE
  /\ inserted' = FALSE
  /\ writes' = 0
  /\ op' = "__init__"
  /\ NoDetect
  /\ NoBatch
  /\ UNCHANGED <<config, snapshot, pc>>

\* mutant of Detect: detect stores what it computed in the cache
DetectCaching(text) ==
  /\ Idle
  /\ op' = "detect"
  /\ arg' = text
  /\ ret' = detect(_cache, text)
  /\ raised' = "none"
  /\ NoBatch
  /\ \E res \in {IF Truthy(text) THEN _add_to_cache(State, text, ret'[1]) ELSE State} :
       Commit(res)
  /\ UNCHANGED <<config, alive, pc>>
  /\ repeat' = IF op = "detect" /\ arg = text
               THEN (IF ret' = ret THEN "same" ELSE "differs")
               ELSE "first"
  /\ touched' = (<<_cache', _dirty', snapshot'>> # <<_cache, _dirty, snapshot>>)

Detect(text) ==
  /\ Idle
  /\ op' = "detect"
  /\ arg' = text
  /\ ret' = detect(_cache, text)
  /\ raised' = "none"
  /\ writes' = 0
  /\ NoBatch
  /\ UNCHANGED <<config, _cache, _dirty, snapshot, alive, pc, inserted, lastLang>>
  /\ repeat' = IF op = "detect" /\ arg = text
               THEN (IF ret' = ret THEN "same" ELSE "differs")
               ELSE "first"
  /\ touched' = (<<_cache', _dirty', snapshot'>> # <<_cache, _dirty, snapshot>>)

AddToCache(phrase, lang) ==
  /\ Idle
  /\ \E res \in {_add_to_cache(State, phrase, lang)} : Commit(res)
  /\ op' = "_add_to_cache"
  /\ raised' = "none"
  /\ NoBatch
  /\ NoDetect
  /\ UNCHANGED <<config, alive, pc>>

FlushCache ==
  /\ Idle
  /\ \E res \in {_flush_cache(State)} : Commit(res)
  /\ op' = "_flush_cache"
  /\ raised' = "none"
  /\ NoBatch
  /\ NoDetect
  /\ UNCHANGED <<config, alive, pc>>

\* annotate_frame(df, columns, auto_cache=..., min_cache_score=...) is entered;
\* n is the number of requested columns
AnnotateFrameCall(n, opts) ==
  /\ Idle
  /\ pc' = "annotate_frame"
  /\ op' = "annotate_frame"
  /\ auto_cache' = opts[1]
  /\ min_cache_score' = opts[2]
  /\ todo' = n
  /\ done' = 0
  /\ ser' = <<>> /\ labels' = <<>> /\ detects' = 0
  /\ writes' = 0
  /\ raised' = "none"
  /\ NoDetect
  /\ UNCHANGED <<config, _cache, _dirty, snapshot, alive, inserted, lastLang>>

\* the loop body for the next requested column, whose cells df[col] are col
AnnotateFrameColumn(col) ==
  /\ pc = "annotate_frame" /\ todo > 0
  /\ \E res \in {frame_column([State EXCEPT !.writes = writes], col)} :
       /\ Commit(res.st)
       /\ detects' = res.st.detects
       /\ ser' = res.ser
       /\ labels' = res.labels
  /\ todo' = todo - 1
  /\ done' = done + 1
  /\ op' = "annotate_frame"
  /\ UNCHANGED <<config, alive, pc, arg, ret, repeat, touched, raised, auto_cache,
                 min_cache_score>>

\* after the loop: the flush, and the return
AnnotateFrameReturn ==
  /\ pc = "annotate_frame" /\ todo = 0
  /\ \E st \in {[State EXCEPT !.writes = writes]} :
       \E res \in {IF auto_cache THEN _flush_cache(st) ELSE st} : Commit(res)
  /\ pc' = "idle"
  /\ op' = "annotate_frame"
  /\ UNCHANGED <<config, alive, arg, ret, repeat, touched, raised, auto_cache,
                 min_cache_score, todo, done, ser, labels, detects>>

\* annotate_json(record, keys, auto_cache=..., min_cache_score=...) is entered;
\* n is the number of requested keys
AnnotateJsonCall(n, opts) ==
  /\ Idle
  /\ pc' = "annotate_json"
  /\ op' = "annotate_json"
  /\ auto_cache' = opts[1]
  /\ min_cache_score' = opts[2]
  /\ todo' = n
  /\ done' = 0
  /\ ser' = <<>> /\ labels' = <<>> /\ detects' = 0
  /\ writes' = 0
  /\ raised' = "none"
  /\ NoDetect
  /\ UNCHANGED <<config, _cache, _dirty, snapshot, alive, inserted, lastLang>>

\* the loop body for the next requested key, whose record.get(k) is value; a
\* KeyError leaves the call
AnnotateJsonKey(value) ==
  /\ pc = "annotate_json" /\ todo > 0
  /\ \E res \in {json_key([State EXCEPT !.writes = writes], value)} :
       /\ Commit(res.st)
       /\ raised' = res.raised
       /\ pc' = IF res.raised = "none" THEN pc ELSE "idle"
       /\ labels' = IF res.raised = "none" THEN <<res.lang>> ELSE <<>>
  /\ todo' = todo - 1
  /\ done' = done + 1
  /\ ser' = <<value>>
  /\ detects' = 1
  /\ op' = "annotate_json"
  /\ UNCHANGED <<config, alive, arg, ret, repeat, touched, auto_cache, min_cache_score>>

AnnotateJsonReturn ==
  /\ pc = "annotate_json" /\ todo = 0
  /\ \E st \in {[State EXCEPT !.writes = writes]} :
       \E res \in {IF auto_cache THEN _flush_cache(st) ELSE st} : Commit(res)
  /\ pc' = "idle"
  /\ op' = "annotate_json"
  /\ UNCHANGED <<config, alive, arg, ret, repeat, touched, raised, auto_cache,
                 min_cache_score, todo, done, ser, labels, detects>>

----------------------------------------------------------------------------
(* Specifications *)

Next ==
  \/ PostInit
  \/ \E text \in Vocabulary \cup {NoneTok} : Detect(text)
  \/ \E phrase \in Vocabulary, lang \in InsertLangs : AddToCache(phrase, lang)
  \/ FlushCache
  \/ \E n \in 0..MaxCols, opts \in CallOptions : AnnotateFrameCall(n, opts)
  \/ \E col \in SeqsOf(Cells, 0, MaxRows) : AnnotateFrameColumn(col)
  \/ AnnotateFrameReturn
  \/ \E n \in 0..MaxCols, opts \in CallOptions : AnnotateJsonCall(n, opts)
  \/ \E value \in Vocabulary \cup {Missing} : AnnotateJsonKey(value)
  \/ AnnotateJsonReturn

\* the cache, its snapshot and the batch annotators
Spec == Init /\ [][Next]_vars

\* one classification per constructed detector
NextDetect == op = "__init__" /\ \E text \in AllTokens \cup {NoneTok} : Detect(text)

\* the classifier over every token of AllTokens
SpecDetect == InitDetect /\ [][NextDetect]_vars

----------------------------------------------------------------------------
(* Properties of the classifier, checked under SpecDetect *)

Uncached == Truthy(arg) /\ arg \notin DOMAIN _cache

\* every code point of text lies in an interval the table declares for entry
AllInLang(text, entry) == \A i \in 1..Len(text) : InLang(text[i], entry)

\* C4 as claimed: for every language L of the range table and every non-empty,
\* uncached token of length <= sample_chars whose characters all lie inside L's
\* declared intervals, detect returns (L, 1.0).
C4_AllInLanguage ==
  (op = "detect" /\ Uncached /\ Len(arg) <= sample_chars)
  => \A k \in 1..Len(UNICODE_RANGES) :
       AllInLang(arg, UNICODE_RANGES[k]) => ret = <<UNICODE_RANGES[k].lang, One>>

\* C4 as amended: the same, for tokens that hold at least one significant character
\* (a code point above 0x20); a token of spaces and controls alone lies inside
\* "en"'s interval 0x00-0x7F and yet gets (default_code, 0.0).
C4_AllInLanguageSignificant ==
  (/\ op = "detect" /\ Uncached /\ Len(arg) <= sample_chars
   /\ \E i \in 1..Len(arg) : arg[i] > 32)
  => \A k \in 1..Len(UNICODE_RANGES) :
       AllInLang(arg, UNICODE_RANGES[k]) => ret = <<UNICODE_RANGES[k].lang, One>>

C4_Witness ==
  /\ op = "detect" /\ Uncached
  /\ sample_chars >= 2
  /\ arg = <<2309, 2309>>
  /\ ret = <<"hi", One>>

Digits == 48..57
AsciiPunctuation == (33..47) \cup (58..64) \cup (91..96) \cup (123..126)

NoneResolves(text) == \A i \in 1..Len(text) : _char_lang(text[i]) = NoLang
DigitsOnly(text) == \A i \in 1..Len(text) : text[i] \in Digits
\* ASCII punctuation, or EM DASH
PunctuationOnly(text) == \A i \in 1..Len(text) : text[i] \in AsciiPunctuation \cup {8212}

\* C6 as claimed: for every uncached token none of whose characters resolves to a
\* language, detect returns (default_code, 0.0), and digits-only and
\* punctuation-only tokens are such tokens.
C6_NothingResolves ==
  (/\ op = "detect" /\ Uncached
   /\ (NoneResolves(arg) \/ DigitsOnly(arg) \/ PunctuationOnly(arg)))
  => ret = <<default_code, Zero>>

\* C6 as amended: for every uncached token none of whose characters resolves to a
\* language, detect returns (default_code, 0.0); a token of ASCII digits and ASCII
\* punctuation is no such token: its characters resolve to "en" on the
\* printable-ASCII fast path and detect returns ("en", 1.0).
C6_NothingResolvesAsciiIsEn ==
  (op = "detect" /\ Uncached)
  => /\ NoneResolves(arg) => ret = <<default_code, Zero>>
     /\ (\A i \in 1..Len(arg) : arg[i] \in Digits \cup AsciiPunctuation)
          => ret = <<"en", One>>

C6_Witness ==
  /\ op = "detect" /\ Uncached
  /\ arg = <<8212, 8212>>
  /\ default_code = "hi"
  /\ ret = <<"hi", Zero>>

\* C7: detect inspects at most sample_chars significant characters: for every
\* uncached token whose first sample_chars significant characters are all in
\* language A and whose later ones are in another language B, the result is
\* (A, 1.0), the result for that prefix alone.
C7_ScanBound ==
  (op = "detect" /\ Uncached)
  => \A sig \in {_iter_significant(arg)} :
       Len(sig) > sample_chars
       => \A a \in 1..Len(UNICODE_RANGES) :
            (\A i \in 1..sample_chars : InLang(sig[i], UNICODE_RANGES[a]))
            => \A b \in 1..Len(UNICODE_RANGES) \ {a} :
                 (\A i \in (sample_chars + 1)..Len(sig) :
                    InLang(sig[i], UNICODE_RANGES[b]))
                 => /\ ret = <<UNICODE_RANGES[a].lang, One>>
                    /\ ret = detect(Empty, SubSeq(sig, 1, sample_chars))

C7_Witness ==
  /\ op = "detect" /\ Uncached
  /\ sample_chars = 2
  /\ arg = <<2309, 2309, 65>>
  /\ ret = <<"hi", One>>

\* the significant characters detect inspects
Inspected(text) ==
  LET sig == _iter_significant(text)
  IN SubSeq(sig, 1, IF Len(sig) < sample_chars THEN Len(sig) ELSE sample_chars)

CountOf(p, lang) == Cardinality({i \in 1..Len(p) : _char_lang(p[i]) = lang})

\* the languages that share the highest counter over p
Tied(p) ==
  LET seen == {_char_lang(p[i]) : i \in 1..Len(p)} \ {NoLang}
  IN {lang \in seen : \A other \in seen : CountOf(p, other) <= CountOf(p, lang)}

TableIndex(lang) == CHOOSE k \in 1..Len(UNICODE_RANGES) : UNICODE_RANGES[k].lang = lang

FirstSeen(p, lang) ==
  CHOOSE i \in 1..Len(p) :
    /\ _char_lang(p[i]) = lang
    /\ \A k \in 1..(i - 1) : _char_lang(p[k]) # lang

----------------------------------------------------------------------------
(* Properties of the cache and the batch annotators, checked under Spec *)

\* C1 as claimed: once a token has been inserted into the cache with language L
\* (by _add_to_cache, by auto-caching or by the snapshot load), every later
\* detect of it returns (L, 1.0), until it is inserted with another language.
C1_CacheShortCircuit ==
  (op = "detect" /\ arg \in DOMAIN lastLang) => ret = <<lastLang[arg], One>>

\* C1 as amended: the same for every non-empty token; the empty token is answered
\* before the cache is consulted.
C1_CacheShortCircuitNonEmpty ==
  (op = "detect" /\ arg \in DOMAIN lastLang /\ arg # <<>>)
  => ret = <<lastLang[arg], One>>

\* a cached language that the token's own characters would not give
C1_Witness ==
  /\ op = "detect"
  /\ arg = TokHiA
  /\ arg \in DOMAIN lastLang
  /\ lastLang[arg] = "en"
  /\ ret = <<"en", One>>

\* C2: each "<col>_lang" column annotate_frame produces has the length and order
\* of its input column, equal values get equal language codes, and each distinct
\* value is classified once.
C2_BatchCorrectness ==
  (op = "annotate_frame" /\ done > 0)
  => /\ Len(labels) = Len(ser)
     /\ \A i, j \in 1..Len(ser) : ser[i] = ser[j] => labels[i] = labels[j]
     /\ \A i \in 1..Len(ser) : labels[i] = detect(_cache, ser[i])[1]
     /\ detects = Cardinality({ser[i] : i \in 1..Len(ser)})

C2_Witness ==
  /\ pc = "annotate_frame" /\ done > 0
  /\ Len(ser) = 2 /\ ser[1] = ser[2]
  /\ labels = <<"en", "en">>
  /\ detects = 1

\* C3: one annotate_frame call writes the snapshot at most once, and not before
\* every requested column has been processed.
C3_FlushOnce ==
  op = "annotate_frame"
  => /\ writes <= 1
     /\ pc = "annotate_frame" => writes = 0

C3_Witness ==
  /\ op = "annotate_frame" /\ pc = "idle"
  /\ auto_cache
  /\ done = 2
  /\ Len(ser) = 2 /\ ser[1] = ser[2]
  /\ writes = 1

\* C5: for the empty string and for None, detect returns (default_code, 0.0) in
\* every cache state, also when the empty string is a key of the cache.
C5_EmptyOrAbsent ==
  (op = "detect" /\ arg \in {NoneTok, <<>>}) => ret = <<default_code, Zero>>

C5_Witness ==
  /\ op = "detect"
  /\ arg = <<>>
  /\ <<>> \in DOMAIN _cache
  /\ _cache[<<>>] # default_code
  /\ ret = <<default_code, Zero>>

\* C9: a detect call right after a detect call on the same token returns the same
\* pair, and a detect call leaves _cache, _dirty and the snapshot as they were.
C9_Idempotence ==
  op = "detect" => (repeat # "differs" /\ ~touched)

C9_Witness ==
  /\ op = "detect"
  /\ repeat = "same"
  /\ arg = TokHiA
  /\ ret = <<"hi", <<1, 2>>>>
  /\ _dirty

\* C10: _dirty is true if and only if an insert has occurred since the last flush
\* that wrote the snapshot, or since construction when there was none.
C10_DirtyFlag == _dirty = inserted

\* a flush without a cache_file writes nothing and leaves the flag set
C10_Witness ==
  /\ op = "_flush_cache"
  /\ cache_file = NoFile
  /\ writes = 0
  /\ _dirty /\ inserted

----------------------------------------------------------------------------
(* Properties of the snapshot, checked under Spec *)

\* the step is a _flush_cache call: a direct one, or the one a batch call with
\* auto_cache makes after its loop
FlushStep ==
  \/ op' = "_flush_cache"
  \/ pc \in {"annotate_frame", "annotate_json"} /\ todo = 0 /\ auto_cache

\* C11: the snapshot changes only in a _flush_cache step: construction, detect and
\* _add_to_cache leave it as it was, and so does every step of annotate_frame and
\* annotate_json when auto_cache is disabled.
C11_FlushOnlyWritePath == [][snapshot' # snapshot => FlushStep]_vars

\* a direct flush has replaced a document that was not the cache's
C11_Witness ==
  /\ op = "_flush_cache"
  /\ writes = 1
  /\ snapshot = json_dumps(_cache)
  /\ TokHiA \in DOMAIN _cache

\* C12: constructing a ScriptDetector whose cache_file holds text that is not
\* JSON, or JSON that is not an object of string pairs, never fails: the detector
\* starts with an empty mapping and _dirty false, as with an absent file.
C12_CorruptCacheTolerated ==
  (op = "__init__" /\ snapshot.kind \in {"invalid", "array"})
  => /\ alive /\ raised = "none"
     /\ _cache = Empty
     /\ ~_dirty

\* C13: right after a _flush_cache that wrote, the snapshot holds the whole
\* in-memory mapping (loaded entries and inserts, keys outside ASCII included): a
\* ScriptDetector constructed on the same cache_file gets a cache equal to the
\* flushing detector's, and a freshly constructed detector's cache is the one its
\* document was written from.
C13_SnapshotRoundTrip ==
  /\ writes >= 1
     => /\ snapshot.kind = "object"
        /\ __post_init__(cache_file, snapshot) = [cache |-> _cache, raised |-> "none"]
        /\ _cache = lastLang
  /\ (op = "__init__" /\ alive /\ snapshot.kind = "object")
     => snapshot = json_dumps(_cache)

\* a detector constructed after a flush that wrote two inserted keys, one of them
\* holding a code point outside ASCII and a quote
C13_Witness ==
  /\ op = "__init__"
  /\ alive
  /\ DOMAIN _cache = {<<>>, TokHiA}
  /\ _cache[TokHiA] = "hi"
  /\ snapshot = json_dumps(_cache)

----------------------------------------------------------------------------
(* Properties of auto-caching, checked under Spec *)

\* the running batch call caches value v: auto_cache is on and the score detect
\* gives v, on the cache as it is before the step, reaches min_cache_score
Qualifies(v) == auto_cache /\ ScoreGE(detect(_cache, v)[2], min_cache_score)

\* C14: in a column step of annotate_frame a value of the column is inserted, with
\* the language detect returned for it, exactly when auto_cache is on and its
\* score is >= min_cache_score: such a value is a key of the cache afterwards and
\* _dirty is set; every other key maps as before, and _dirty changes only when a
\* value was inserted.  With auto_cache off no step of the call changes the cache
\* or _dirty.
C14_AutoCacheThreshold ==
  [][/\ (pc = "annotate_frame" /\ todo > 0)
        => /\ \A i \in 1..Len(ser') :
                Qualifies(ser'[i])
                => /\ cache_get(_cache', ser'[i]) = detect(_cache, ser'[i])[1]
                   /\ _dirty'
           /\ \A t \in (DOMAIN _cache') \cup (DOMAIN _cache) :
                (\A i \in 1..Len(ser') : ser'[i] = t => ~Qualifies(t))
                => cache_get(_cache', t) = cache_get(_cache, t)
           /\ (\A i \in 1..Len(ser') : ~Qualifies(ser'[i])) => _dirty' = _dirty
     /\ (op' = "annotate_frame" /\ ~auto_cache') => UNCHANGED <<_cache, _dirty>>
    ]_vars

\* a column whose value "None" scored 1.0 and was inserted while its mixed value
\* scored 0.5, below the threshold 0.95, and was not
C14_Witness ==
  /\ pc = "annotate_frame" /\ done = 1
  /\ auto_cache /\ min_cache_score = <<19, 20>>
  /\ ser = <<StrNone, TokHiA>>
  /\ DOMAIN _cache = {StrNone}
  /\ _cache[StrNone] = "en"
  /\ _dirty

\* C15: a _flush_cache step taken while _dirty is false, or on a detector without
\* cache_file, changes neither the snapshot nor the in-memory mapping nor _dirty.
C15_FlushNoOp ==
  [][(FlushStep /\ (~_dirty \/ cache_file = NoFile))
     => UNCHANGED <<snapshot, _cache, _dirty>>]_vars

\* a flush of a clean, non-empty cache whose file exists
C15_Witness ==
  /\ op = "_flush_cache"
  /\ writes = 0
  /\ ~_dirty
  /\ cache_file # NoFile
  /\ _cache # Empty
  /\ snapshot.kind = "object"

----------------------------------------------------------------------------
(* Further properties of the classifier, checked under SpecDetect *)

\* the first language, in the table's declared order, one of whose intervals
\* contains cp; NoLang when no interval does
TableFirst(cp) ==
  LET hits == {k \in 1..Len(UNICODE_RANGES) : InLang(cp, UNICODE_RANGES[k])}
  IN IF hits = {} THEN NoLang
     ELSE UNICODE_RANGES[CHOOSE k \in hits : \A j \in hits : k <= j].lang

\* what detect returns for an uncached token of one significant character that
\* resolves to lang
OneChar(lang) == IF lang = NoLang THEN <<default_code, Zero>> ELSE <<lang, One>>

\* C16 as claimed: a code point of the printable-ASCII set resolves to the
\* detector's default_code, whatever default_code is configured; any other code
\* point resolves to the first language of the table that contains it, or to none.
C16_FastPathDefaultCode ==
  (op = "detect" /\ Truthy(arg))
  => /\ \A i \in 1..Len(arg) :
          _char_lang(arg[i]) = IF arg[i] \in _ASCII THEN default_code
                               ELSE TableFirst(arg[i])
     /\ (Uncached /\ Len(arg) = 1 /\ Significant(arg[1]))
        => ret = OneChar(IF arg[1] \in _ASCII THEN default_code
                         ELSE TableFirst(arg[1]))

\* C16 as amended: a code point of the printable-ASCII set resolves to "en",
\* whatever default_code is configured; any other code point resolves to the first
\* language of the table that contains it, or to none.
C16_FastPathEn ==
  (op = "detect" /\ Truthy(arg))
  => /\ \A i \in 1..Len(arg) :
          _char_lang(arg[i]) = IF arg[i] \in _ASCII THEN "en"
                               ELSE TableFirst(arg[i])
     /\ (Uncached /\ Len(arg) = 1 /\ Significant(arg[1]))
        => ret = OneChar(IF arg[1] \in _ASCII THEN "en" ELSE TableFirst(arg[1]))

\* 'A' on a detector whose default_code is "hi"
C16_Witness ==
  /\ op = "detect"
  /\ default_code = "hi"
  /\ arg = <<65>>
  /\ Uncached
  /\ ret = <<"en", One>>

\* a character that counts: its code point is above 0x20 and outside 0x2000-0x200F
Counted(cp) == cp > 32 /\ ~(8192 <= cp /\ cp <= 8207)

\* the first sample_chars counted characters of text
Prefix(text) ==
  LET kept == SelectSeq(text, Counted)
  IN SubSeq(kept, 1, IF Len(kept) < sample_chars THEN Len(kept) ELSE sample_chars)

\* C17: for an uncached token with at least one resolved character among those
\* inspected, detect returns a language of highest counter and the score
\* (its counter) / (number of counted characters inspected, resolved or not);
\* characters <= 0x20 or in 0x2000-0x200F add to neither number; 0 < score <= 1,
\* and the score is 1.0 only if every inspected character resolved to the winner.
C17_ScoreFormula ==
  (op = "detect" /\ Uncached)
  => \A p \in {Prefix(arg)} :
       (\E i \in 1..Len(p) : _char_lang(p[i]) # NoLang)
       => /\ ret[1] # NoLang
          /\ \A i \in 1..Len(p) :
               _char_lang(p[i]) # NoLang
               => CountOf(p, _char_lang(p[i])) <= CountOf(p, ret[1])
          /\ ret[2] = Frac(CountOf(p, ret[1]), Len(p))
          /\ 0 < ret[2][1] /\ ret[2][1] <= ret[2][2]
          /\ ret[2] = One => \A i \in 1..Len(p) : _char_lang(p[i]) = ret[1]

\* " —A": the space adds to neither number, the dash to the denominator alone
C17_Witness ==
  /\ op = "detect"
  /\ Uncached
  /\ sample_chars = 3
  /\ arg = <<32, 8212, 65>>
  /\ ret = <<"en", <<1, 2>>>>

----------------------------------------------------------------------------
(* Properties of snapshot writes and of cache entries, checked under Spec *)

\* the step is a _flush_cache call that writes the file
Wrote == FlushStep /\ writes' = (IF pc = "idle" THEN 0 ELSE writes) + 1

\* the mapping a detector loads from document doc: what was last loaded, or last
\* persisted
Persisted(doc) == __post_init__(cache_file, doc).cache

\* C18 as claimed: a flush never writes the snapshot when the in-memory mapping is
\* identical to the mapping last loaded or last persisted.
C18_NoRedundantWrite == [][Wrote => _cache # Persisted(snapshot)]_vars

\* C18 as amended: a flush writes the snapshot only when _dirty is set, that is
\* when an insert has occurred since the last write or since construction; the
\* insert may have re-inserted a pair the mapping already held.
C18_WriteOnlyWhenDirty ==
  [][Wrote => (_dirty /\ inserted /\ cache_file # NoFile)]_vars

\* an annotate_frame call with auto_cache has written the cache at its end
C18_Witness ==
  /\ op = "annotate_frame" /\ pc = "idle"
  /\ auto_cache
  /\ done = 1
  /\ writes = 1
  /\ ~_dirty
  /\ snapshot = json_dumps(_cache)
  /\ ser = <<StrNone>>

\* the step belongs to detect, annotate_frame, annotate_json or _flush_cache
ListedStep == op' \in {"detect", "annotate_frame", "annotate_json", "_flush_cache"}

\* every token keeps the label detect gives it, and a column step of
\* annotate_frame labels each row with what detect gave on the cache before it:
\* the labels are those of the same call with auto_cache off
LabelsKept ==
  /\ \/ _cache' = _cache
     \/ \A t \in Vocabulary \cup {StrNone} :
          detect(_cache', t)[1] = detect(_cache, t)[1]
  /\ (pc = "annotate_frame" /\ todo > 0)
     => \A i \in 1..Len(ser') : labels'[i] = detect(_cache, ser'[i])[1]

\* C19 as claimed: no step of detect, annotate_frame, annotate_json or
\* _flush_cache removes a key of the cache or changes its language, and the labels
\* of annotate_frame do not depend on auto_cache.
C19_EntriesStable ==
  [][ListedStep
     => /\ \A t \in DOMAIN _cache : cache_get(_cache', t) = _cache[t]
        /\ LabelsKept]_vars

\* C19 as amended: the same for every non-empty key; the entry of the empty token
\* may be overwritten.
C19_NonEmptyEntriesStable ==
  [][ListedStep
     => /\ \A t \in DOMAIN _cache : Truthy(t) => cache_get(_cache', t) = _cache[t]
        /\ LabelsKept]_vars

\* annotate_json has re-inserted a cached token with the language the cache held:
\* the token's own score, 0.5, is below the threshold
C19_Witness ==
  /\ pc = "annotate_json" /\ done = 1
  /\ auto_cache /\ min_cache_score = <<19, 20>>
  /\ ser = <<TokHiA>>
  /\ labels = <<"en">>
  /\ _cache[TokHiA] = "en"
  /\ _dirty

\* C20: for a record that lacks the requested key, or holds "" for it, and for
\* every auto_cache and min_cache_score in [0,1], annotate_json raises nothing and
\* sets "<k>_lang" to default_code.
C20_JsonDegrades ==
  (op = "annotate_json" /\ done >= 1 /\ ser \in {<<Missing>>, << <<>> >>})
  => /\ raised = "none"
     /\ labels = <<default_code>>

====
